---- MODULE Spec2Model ----
(***************************************************************************)
(* X12 segment reader (x12/io.py, x12/support.py, x12/config.py) and the   *)
(* 837 loop models (linuxforhealth/x12/v4010/x12_837_004010X096A1).        *)
(*                                                                         *)
(* Strings are sequences of one-character strings; a list of strings is a  *)
(* sequence of such sequences.  Python's None is NoneChar for a character, *)
(* NoneStr for a string, NoneSeg for a list of fields (no stored field     *)
(* list is empty) and NoneContext for the context object.                  *)
(***************************************************************************)
EXTENDS Naturals, Integers, Sequences, FiniteSets, TLC

VARIABLES x12_input, files, x12_config, buffer_size, x12_stream, context,
          session, enters, error, gens, cur, loop, built

reader_vars == <<x12_input, files, x12_config, buffer_size, x12_stream, context,
                 session, enters, error, gens, cur>>
loop_vars == <<loop, built>>
vars == <<reader_vars, loop_vars>>

(***************************************************************************)
(* Bounds of the model.                                                    *)
(***************************************************************************)
\* Largest number of freely chosen segments in an input (they follow the ISA
\* segment, or the ISA, GS and ST segments).
MaxBodySegments == 2
\* Read-buffer sizes 1..MaxSmallBuffer lie inside the first segment.
MaxSmallBuffer == 2
\* Read-buffer sizes reach this many characters past the ISA segment.
MaxBufferPastISA == 2
\* Number of segments() calls on one reader; their generators may be pulled
\* in any order.
MaxPasses == 2
\* Largest number of segments after the ISA segment in a file's content.
MaxFileBodySegments == 1
\* Number of __enter__ calls on one reader.
MaxEnters == 2

(***************************************************************************)
(* X12Config (x12/config.py).                                              *)
(***************************************************************************)
x12_isa_component_separator == 104
x12_isa_element_separator == 3
\* mutant: the repetition separator read one character early
x12_isa_repetition_separator_early == 82 - 1
x12_isa_repetition_separator == 82
x12_isa_segment_length == 106
x12_isa_segment_terminator == 105
x12_isa_control_version == 12
x12_gs_functional_code == 1
\* mutant: the functional version read from the field before GS08
x12_gs_function_version_early == 8 - 1
x12_gs_function_version == 8
x12_st_transaction_code == 1
x12_reader_buffer_size == 1024000

(***************************************************************************)
(* None values.                                                            *)
(***************************************************************************)
NoneChar == "None"
NoneStr == <<"None">>
NoneSeg == <<>>
NoneContext == [is_none |-> TRUE]
NoneStream == [state |-> "None", data |-> <<>>, pos |-> 0]
NoneConfig == [is_none |-> TRUE]
NoneSize == -1

(***************************************************************************)
(* String primitives of Python used by the reader.                         *)
(***************************************************************************)
Min(a, b) == IF a < b THEN a ELSE b

LowerCase == <<"a","b","c","d","e","f","g","h","i","j","k","l","m",
               "n","o","p","q","r","s","t","u","v","w","x","y","z">>
UpperCase == <<"A","B","C","D","E","F","G","H","I","J","K","L","M",
               "N","O","P","Q","R","S","T","U","V","W","X","Y","Z">>

\* str.upper() on one character
UpperChar(c) ==
    IF \E i \in 1..26 : LowerCase[i] = c
    THEN UpperCase[CHOOSE i \in 1..26 : LowerCase[i] = c]
    ELSE c

\* str.upper()
Upper(s) == [i \in 1..Len(s) |-> UpperChar(s[i])]

\* str.startswith(prefix)
StartsWith(s, prefix) ==
    /\ Len(s) >= Len(prefix)
    /\ SubSeq(s, 1, Len(prefix)) = prefix

\* str.replace(c, "")
RemoveChar(s, c) == SelectSeq(s, LAMBDA ch : ch # c)

\* the whitespace characters of the inputs
Whitespace == {" ", "\t", "\n", "\r"}

\* str.rstrip(c) for a one-character c
RECURSIVE RStripChar(_, _)
RStripChar(s, c) ==
    IF s # <<>> /\ s[Len(s)] = c
    THEN RStripChar(SubSeq(s, 1, Len(s) - 1), c) ELSE s

\* str.rstrip(None): trailing whitespace is removed
RStripWhitespace(s) ==
    LET kept == {j \in 1..Len(s) : s[j] \notin Whitespace} IN
    IF kept = {} THEN <<>>
    ELSE SubSeq(s, 1, CHOOSE j \in kept : \A k \in kept : k <= j)

\* str.rstrip(c), c a character or None
RStrip(s, c) == IF c = NoneChar THEN RStripWhitespace(s) ELSE RStripChar(s, c)

\* index of the first c in s at or after position i (1-based), 0 when none
Find(s, c, i) ==
    LET hits == {j \in i..Len(s) : s[j] = c} IN
    IF hits = {} THEN 0 ELSE CHOOSE j \in hits : \A k \in hits : j <= k

\* str.split(c) for a one-character c: one more piece than occurrences of c
RECURSIVE SplitChar(_, _)
SplitChar(s, c) ==
    LET k == Find(s, c, 1) IN
    IF k = 0 THEN <<s>>
    ELSE <<SubSeq(s, 1, k - 1)>> \o SplitChar(SubSeq(s, k + 1, Len(s)), c)

\* str.split(None): the maximal runs of non-whitespace characters, in order;
\* no piece is empty, and a string of whitespace only gives no piece
SplitWhitespace(s) ==
    LET blank(i) == i < 1 \/ i > Len(s) \/ s[i] \in Whitespace
        starts == {i \in 1..Len(s) : ~blank(i) /\ blank(i - 1)}
        ends == {i \in 1..Len(s) : ~blank(i) /\ blank(i + 1)}
        nth(S, k) == CHOOSE i \in S : Cardinality({j \in S : j < i}) = k - 1
    IN  [k \in 1..Cardinality(starts) |-> SubSeq(s, nth(starts, k), nth(ends, k))]

\* str.split(c), c a character or None
Split(s, c) == IF c = NoneChar THEN SplitWhitespace(s) ELSE SplitChar(s, c)

\* c.join(parts)
RECURSIVE Join(_, _)
Join(parts, c) ==
    IF parts = <<>> THEN <<>>
    ELSE IF Len(parts) = 1 THEN parts[1]
    ELSE parts[1] \o <<c>> \o Join(Tail(parts), c)

\* concatenation of a list of strings
RECURSIVE Concat(_)
Concat(parts) == IF parts = <<>> THEN <<>> ELSE parts[1] \o Concat(Tail(parts))

Pad(n, c) == [i \in 1..n |-> c]

ISA == <<"I", "S", "A">>
GS == <<"G", "S">>
ST == <<"S", "T">>

(***************************************************************************)
(* x12/support.py                                                          *)
(***************************************************************************)
\* is_x12_data: a string that is not None or empty and starts with "ISA"
is_x12_data(input_data) ==
    IF input_data # NoneStr /\ input_data # <<>>
    THEN StartsWith(input_data, ISA) ELSE FALSE

\* the file system: a function from path names to what is found under them
NoFile == [kind |-> "none", content |-> <<>>]
Directory == [kind |-> "dir", content |-> <<>>]
RegularFile(text) == [kind |-> "file", content |-> text]

\* a file system that holds nothing
EmptyFS == [p \in {} |-> NoFile]

\* what the file system holds under a path name, taken as it is written
Lookup(fs, path) == IF path \in DOMAIN fs THEN fs[path] ELSE NoFile

\* os.environ (HOME is set) and the home directories of the password database
HomeDir == <<"/", "h">>
environ == (<<"H", "O", "M", "E">> :> HomeDir) @@ (<<"X">> :> <<"/", "v">>)
pwd == (<<"u">> :> <<"/", "u">>)

\* the characters \w matches in the names of variables
WordChars ==
    {LowerCase[i] : i \in 1..26} \cup {UpperCase[i] : i \in 1..26}
    \cup {"0", "1", "2", "3", "4", "5", "6", "7", "8", "9", "_"}

\* os.path.expanduser: a leading "~" or "~user", up to the first "/", is
\* replaced by the home directory of the user, stripped of trailing "/"; the
\* path is returned as it is when it has no leading "~" or the user is not
\* known; an empty result is "/"
expanduser(path) ==
    IF ~StartsWith(path, <<"~">>) THEN path
    ELSE LET slash == Find(path, "/", 2)
             i == IF slash = 0 THEN Len(path) + 1 ELSE slash
             name == SubSeq(path, 2, i - 1)
             rest == SubSeq(path, i, Len(path))
             known == name = <<>> \/ name \in DOMAIN pwd
             userhome == IF name = <<>> THEN environ[<<"H", "O", "M", "E">>]
                         ELSE pwd[name]
         IN  IF ~known THEN path
             ELSE LET expanded == RStripChar(userhome, "/") \o rest IN
                  IF expanded = <<>> THEN <<"/">> ELSE expanded

\* the last character of the variable reference that starts with the "$" at
\* position p: "$" and a run of word characters, or "${", any characters but
\* "}", and "}"; 0 when no reference starts there
VarEnd(path, p) ==
    IF p >= Len(path) THEN 0
    ELSE IF path[p + 1] \in WordChars
    THEN CHOOSE q \in (p + 1)..Len(path) :
            /\ \A k \in (p + 1)..q : path[k] \in WordChars
            /\ q = Len(path) \/ path[q + 1] \notin WordChars
    ELSE IF path[p + 1] = "{" THEN Find(path, "}", p + 2)
    ELSE 0

\* os.path.expandvars, from position i on: every "$name" and "${name}" whose
\* name is in the environment is replaced by its value (the value is not
\* expanded again); the others are left as they are
RECURSIVE expandvars_from(_, _)
expandvars_from(path, i) ==
    LET refs == {p \in i..Len(path) : path[p] = "$" /\ VarEnd(path, p) # 0} IN
    IF refs = {} THEN path
    ELSE LET p == CHOOSE r \in refs : \A k \in refs : r <= k
             j == VarEnd(path, p)
             name == IF path[p + 1] = "{" THEN SubSeq(path, p + 2, j - 1)
                     ELSE SubSeq(path, p + 1, j)
             head == SubSeq(path, 1, p - 1) \o environ[name]
         IN  IF name \in DOMAIN environ
             THEN expandvars_from(head \o SubSeq(path, j + 1, Len(path)),
                                  Len(head) + 1)
             ELSE expandvars_from(path, j + 1)

expandvars(path) == expandvars_from(path, 1)

\* os.path.expandvars(os.path.expanduser(file_path))
Expand(path) == expandvars(expanduser(path))

\* is_x12_file: the expanded path exists, is no directory, and the first 106
\* characters of the file under it look like X12 data
is_x12_file(file_path, fs) ==
    IF file_path = NoneStr \/ file_path = <<>> THEN FALSE
    ELSE LET found == Lookup(fs, Expand(file_path)) IN
         IF found.kind # "file" THEN FALSE
         ELSE is_x12_data(SubSeq(found.content, 1,
                                 Min(x12_isa_segment_length, Len(found.content))))

(***************************************************************************)
(* TextIOBase: read(n) from a stream record [state, data, pos].            *)
(***************************************************************************)
StreamRead(stream, n) ==
    SubSeq(stream.data, stream.pos + 1, Min(stream.pos + n, Len(stream.data)))

StreamAfterRead(stream, n) ==
    [stream EXCEPT !.pos = Min(stream.pos + n, Len(stream.data))]

StreamSeek0(stream) == [stream EXCEPT !.pos = 0]

(***************************************************************************)
(* X12SegmentReader.__init__                                               *)
(***************************************************************************)
InitDelimiters ==
    [element_separator |-> NoneChar, repetition_separator |-> NoneChar,
     segment_terminator |-> NoneChar, component_separator |-> NoneChar]

InitVersion ==
    [interchange_control_version |-> NoneStr, functional_id_code |-> NoneStr,
     functional_version_code |-> NoneStr, transaction_set_code |-> NoneStr]

InitContext ==
    [delimiters |-> InitDelimiters,
     version |-> InitVersion,
     current_segment_name |-> NoneStr, current_segment |-> NoneSeg,
     previous_segment_name |-> NoneStr, previous_segment |-> NoneSeg,
     interchange_header |-> NoneSeg,
     functional_group_header |-> NoneSeg,
     transaction_set_header |-> NoneSeg]

(***************************************************************************)
(* X12SegmentReader._parse_isa_segment: the delimiters as far as they are  *)
(* assigned, and whether an index was out of range.                        *)
(***************************************************************************)
_parse_isa_segment(ctx, stream) ==
    LET isa_segment == StreamRead(StreamSeek0(stream), x12_isa_segment_length)
        n == Len(isa_segment)
        d0 == ctx.delimiters
        d1 == IF x12_isa_element_separator < n
              THEN [d0 EXCEPT !.element_separator =
                        isa_segment[x12_isa_element_separator + 1]]
              ELSE d0
        d2 == IF x12_isa_repetition_separator < n
              THEN [d1 EXCEPT !.repetition_separator =
                        isa_segment[x12_isa_repetition_separator + 1]]
              ELSE d1
        d3 == IF x12_isa_segment_terminator < n
              THEN [d2 EXCEPT !.segment_terminator =
                        isa_segment[x12_isa_segment_terminator + 1]]
              ELSE d2
        d4 == IF x12_isa_component_separator < n
              THEN [d3 EXCEPT !.component_separator =
                        isa_segment[x12_isa_component_separator + 1]]
              ELSE d3
    IN  IF x12_isa_element_separator >= n
        THEN [ctx |-> ctx, ok |-> FALSE]
        ELSE IF x12_isa_repetition_separator >= n
        THEN [ctx |-> [ctx EXCEPT !.delimiters = d1], ok |-> FALSE]
        ELSE IF x12_isa_segment_terminator >= n
        THEN [ctx |-> [ctx EXCEPT !.delimiters = d2], ok |-> FALSE]
        ELSE IF x12_isa_component_separator >= n
        THEN [ctx |-> [ctx EXCEPT !.delimiters = d3], ok |-> FALSE]
        ELSE [ctx |-> [ctx EXCEPT !.delimiters = d4], ok |-> TRUE]

(***************************************************************************)
(* X12SegmentReader._update_context: the context after the call, as far as *)
(* its assignments got, and whether a field index was out of range.        *)
(***************************************************************************)
_update_context(ctx, segment_fields) ==
    IF segment_fields = <<>>
    THEN \* segment_fields[0] is out of range, after the first two assignments
         [ctx |-> [ctx EXCEPT !.previous_segment_name = ctx.current_segment_name,
                              !.previous_segment = ctx.current_segment],
          ok |-> FALSE]
    ELSE
    LET name == Upper(segment_fields[1])
        c1 == [ctx EXCEPT !.previous_segment_name = ctx.current_segment_name,
                          !.previous_segment = ctx.current_segment,
                          !.current_segment_name = name,
                          !.current_segment = segment_fields]
        n == Len(segment_fields)
    IN  IF name = ISA
        THEN LET c2 == [c1 EXCEPT !.interchange_header = segment_fields] IN
             IF x12_isa_control_version >= n
             THEN [ctx |-> c2, ok |-> FALSE]
             ELSE [ctx |-> [c2 EXCEPT !.version.interchange_control_version =
                               segment_fields[x12_isa_control_version + 1]],
                   ok |-> TRUE]
        ELSE IF name = GS
        THEN LET c2 == [c1 EXCEPT !.functional_group_header = segment_fields]
                 c3 == [c2 EXCEPT !.version.functional_id_code =
                               segment_fields[x12_gs_functional_code + 1]]
             IN
             IF x12_gs_functional_code >= n
             THEN [ctx |-> c2, ok |-> FALSE]
             ELSE IF x12_gs_function_version >= n
             THEN [ctx |-> c3, ok |-> FALSE]
             ELSE [ctx |-> [c3 EXCEPT !.version.functional_version_code =
                               segment_fields[x12_gs_function_version + 1]],
                   ok |-> TRUE]
        ELSE IF name = ST
        THEN LET c2 == [c1 EXCEPT !.transaction_set_header = segment_fields] IN
             IF x12_st_transaction_code >= n
             THEN [ctx |-> c2, ok |-> FALSE]
             ELSE [ctx |-> [c2 EXCEPT !.version.transaction_set_code =
                               segment_fields[x12_st_transaction_code + 1]],
                   ok |-> TRUE]
        ELSE [ctx |-> c1, ok |-> TRUE]

(***************************************************************************)
(* X12SegmentReader.segments: one chunk of the outer loop.                 *)
(***************************************************************************)
\* index of the last character of the chunk whose read(buffer_size) ended at
\* index j: characters are added one at a time until the terminator or the
\* end of the stream
ExtendToTerminator(data, j, terminator) ==
    LET k == Find(data, terminator, j) IN
    IF k = 0 THEN Len(data) ELSE k

\* end index of the chunk that starts after position pos
ChunkEnd(data, pos, size, terminator) ==
    ExtendToTerminator(data, Min(pos + size, Len(data)), terminator)

\* buffer cleanup
CleanBuffer(buffer, terminator) ==
    RStrip(RemoveChar(buffer, "\n"), terminator)

\* the raw segments of one chunk
ChunkSegments(buffer, terminator) ==
    Split(CleanBuffer(buffer, terminator), terminator)

\* the whole output of segments() as a function of the stream text, the
\* delimiters and the buffer size, chunk by chunk (used to state claims)
RECURSIVE RawSegmentsFrom(_, _, _, _)
RawSegmentsFrom(data, pos, size, terminator) ==
    IF pos >= Len(data) THEN <<>>
    ELSE LET e == ChunkEnd(data, pos, size, terminator) IN
         ChunkSegments(SubSeq(data, pos + 1, e), terminator)
            \o RawSegmentsFrom(data, e, size, terminator)

(***************************************************************************)
(* Inputs: transmissions built from an ISA segment of the standard layout  *)
(* (fixed-width fields, 106 characters with its terminator) followed by a  *)
(* few short segments, with or without a line break after each terminator; *)
(* inputs with a wrong tag or cut short; and file paths.                   *)
(***************************************************************************)
\* (element, repetition, component separator, segment terminator)
StandardDelimiters == <<"*", "^", ":", "~">>
\* delimiter sets in which two delimiters coincide
OtherDelimiterChoices == { <<"*", "^", ":", "*">> }
DelimiterChoices == {StandardDelimiters} \cup OtherDelimiterChoices

ISAFieldWidths == <<2, 10, 2, 10, 2, 15, 2, 15, 6, 4>>

\* the fields ISA01..ISA16 for the given repetition and component separator
ISAFields(rs, cs) ==
    [i \in 1..10 |-> Pad(ISAFieldWidths[i], "0")]
        \o << <<rs>>, <<"0", "0", "5", "0", "1">>, Pad(9, "0"), <<"0">>,
              <<"T">>, <<cs>> >>

ISASegment(tag, d) == Join(<<tag>> \o ISAFields(d[2], d[3]), d[1])

GSFields == <<GS, <<"H", "S">>, <<>>, <<>>, <<>>, <<>>, <<>>, <<>>, <<"V", "1">> >>
STFields == <<ST, <<"2", "7", "0">> >>

\* the fields of the segments that may follow the ISA segment
BodySegmentFields ==
    { GSFields,
      << <<"g", "s">>, <<"H", "C">>, <<>>, <<>>, <<>>, <<>>, <<>>, <<>>,
         <<"V", "2">> >>,
      STFields,
      << <<"E", "Q">>, <<"x">> >>,
      <<GS, <<"H", "X">> >>,
      << <<>> >> }

RECURSIVE SeqsUpTo(_, _)
SeqsUpTo(S, n) ==
    IF n = 0 THEN { <<>> }
    ELSE LET shorter == SeqsUpTo(S, n - 1) IN
         shorter \cup { Append(q, x) : q \in shorter, x \in S }

\* what follows the ISA segment: up to MaxBodySegments segments, or the GS
\* and ST headers and then fewer than MaxBodySegments segments
Bodies ==
    SeqsUpTo(BodySegmentFields, MaxBodySegments)
    \cup { <<GSFields, STFields>> \o b :
             b \in SeqsUpTo(BodySegmentFields, MaxBodySegments - 1) }

\* the text of a transmission: each segment followed by the terminator and,
\* with line breaks, by "\n"
Transmission(tag, d, body, line_breaks) ==
    LET ending == IF line_breaks THEN <<d[4], "\n">> ELSE <<d[4]>> IN
    Concat([i \in 1..(Len(body) + 1) |->
              (IF i = 1 THEN ISASegment(tag, d) ELSE Join(body[i - 1], d[1]))
                 \o ending])

FileTexts ==
    { Transmission(ISA, d, body, nl) :
        d \in DelimiterChoices,
        body \in SeqsUpTo(BodySegmentFields, MaxFileBodySegments),
        nl \in BOOLEAN }

\* inline texts: the bodies on one line, and the texts of the files
ValidTexts ==
    { Transmission(ISA, StandardDelimiters, body, FALSE) : body \in Bodies }
    \cup FileTexts

StandardISA == Transmission(ISA, StandardDelimiters, <<>>, FALSE)

TruncatedLengths == {0, 2, 3, 4, 83, 105}

InvalidTexts ==
    { Transmission(<<"F", "O", "O">>, StandardDelimiters, <<>>, nl) :
        nl \in BOOLEAN }
    \cup { SubSeq(StandardISA, 1, n) : n \in TruncatedLengths }

\* path names: one that needs no expansion, and four that name their file
\* only after expansion ("~", "~user", "$NAME", "${NAME}")
FilePath == <<"/", "f">>
HomePath == <<"~", "/", "f">>
UserPath == <<"~", "u", "/", "f">>
VarPath == <<"$", "X", "/", "f">>
BracePath == <<"$", "{", "X", "}", "/", "f">>
\* path names with a "~user" and a "$NAME" that are not known: not expanded
PlainPaths == { FilePath, <<"~", "w", "/", "f">>, <<"$", "Y", "/", "f">> }
ExpandedPaths == { HomePath, UserPath, VarPath, BracePath }

FOOText == Transmission(<<"F", "O", "O">>, StandardDelimiters, <<>>, FALSE)

\* what the file system may hold under the unexpanded name of such a path
LiteralEntries ==
    { NoFile, Directory, RegularFile(<<>>), RegularFile(FOOText),
      RegularFile(SubSeq(StandardISA, 1, 105)),
      RegularFile(Transmission(<<"F", "O", "O">>, StandardDelimiters,
                               <<GSFields>>, FALSE)),
      RegularFile(Transmission(ISA, StandardDelimiters,
                               << <<GS, <<"H", "X">> >> >>, FALSE)) }

\* a file system with one entry, and with an entry under the expanded name
\* of a path and another under the name as it is written
OneFile(path, entry) == path :> entry
TwoFiles(path, expanded, literal) ==
    (Expand(path) :> expanded) @@ (path :> literal)

\* (x12_input, the file system)
Inputs ==
    { <<t, EmptyFS>> : t \in ValidTexts \cup InvalidTexts }
    \cup { <<FilePath, OneFile(FilePath, RegularFile(t))>> :
             t \in FileTexts \cup InvalidTexts }
    \cup { <<p, OneFile(p, e)>> :
             p \in PlainPaths, e \in {Directory, NoFile, RegularFile(StandardISA)} }
    \cup { <<HomePath, TwoFiles(HomePath, RegularFile(StandardISA), e)>> :
             e \in LiteralEntries }
    \cup { <<p, TwoFiles(p, RegularFile(t), e)>> :
             p \in ExpandedPaths,
             t \in {StandardISA, FOOText},
             e \in {NoFile, RegularFile(FOOText)} }

\* X12_READER_BUFFER_SIZE
BufferSizes ==
    (1..MaxSmallBuffer)
    \cup ((x12_isa_segment_length - 1)..(x12_isa_segment_length + MaxBufferPastISA))
    \cup { x12_reader_buffer_size }

\* a generator returned by segments(): where its body stands, the segments of
\* its current chunk not yet looked at, the records it has yielded, the
\* exception that ended it, whether another generator was pulled or the
\* stream was replaced while it was suspended at a yield, and its number
\* among the generators of the reader
NewGenerator(n) ==
    [pc |-> "start", pending |-> <<>>, emitted |-> <<>>, error |-> "none",
     mixed |-> FALSE, n |-> n]

\* no generator has been pulled
NoGenerator ==
    [pc |-> "none", pending |-> <<>>, emitted |-> <<>>, error |-> "none",
     mixed |-> FALSE, n |-> 0]

\* no loop is being built
NoLoop == [cls |-> "none"]
NotBuilt == [status |-> "none", errors |-> {}, produced |-> FALSE]

(***************************************************************************)
(* State after X12SegmentReader(x12_input).                                *)
(***************************************************************************)
Init ==
    /\ \E i \in Inputs : x12_input = i[1] /\ files = i[2]
    /\ \E size \in BufferSizes : x12_config = [x12_reader_buffer_size |-> size]
    /\ context = InitContext
    /\ buffer_size = NoneSize
    /\ x12_stream = NoneStream
    /\ session = "new"
    /\ enters = 0
    /\ error = "none"
    /\ gens = <<>>
    /\ cur = 0
    /\ loop = NoLoop
    /\ built = NotBuilt

(***************************************************************************)
(* X12SegmentReader.__enter__                                              *)
(***************************************************************************)
OpenStream(text) == [state |-> "open", data |-> text, pos |-> 0]

\* the generators after __enter__ has replaced the stream: those suspended
\* at a yield go on reading from the new stream
AfterEnter ==
    [h \in 1..Len(gens) |->
        IF gens[h].pc = "running" THEN [gens[h] EXCEPT !.mixed = TRUE]
        ELSE gens[h]]

\* __enter__ asks for no state of the reader: it may be called again on an
\* open reader (the stream is replaced by a new one, the old one is not
\* closed) and after __exit__ (x12_input is None then)
Enter ==
    /\ enters < MaxEnters
    /\ enters' = enters + 1
    /\ UNCHANGED <<x12_input, files, x12_config, cur, loop_vars>>
    /\ IF ~is_x12_file(x12_input, files) /\ ~is_x12_data(x12_input)
       THEN \* raise ValueError("Invalid x12_input ...")
            /\ session' = "enter_failed"
            /\ error' = "ValueError"
            /\ UNCHANGED <<x12_stream, buffer_size, context, gens>>
       ELSE IF /\ is_x12_file(x12_input, files)
               /\ Lookup(files, x12_input).kind = "none"
       THEN \* open(self.x12_input): nothing under the name as it is written
            /\ session' = "enter_failed"
            /\ error' = "FileNotFoundError"
            /\ UNCHANGED <<x12_stream, buffer_size, context, gens>>
       ELSE IF /\ is_x12_file(x12_input, files)
               /\ Lookup(files, x12_input).kind = "dir"
       THEN \* open(self.x12_input): a directory under the name as it is written
            /\ session' = "enter_failed"
            /\ error' = "IsADirectoryError"
            /\ UNCHANGED <<x12_stream, buffer_size, context, gens>>
       ELSE LET stream == IF is_x12_file(x12_input, files)
                          THEN OpenStream(Lookup(files, x12_input).content)
                          ELSE OpenStream(x12_input)
                first == StreamRead(stream, x12_isa_segment_length)
                parsed == _parse_isa_segment(context, stream)
            IN  /\ buffer_size' = x12_config.x12_reader_buffer_size
                /\ gens' = AfterEnter
                /\ IF first = <<>>
                   THEN \* raise ValueError("Invalid X12Stream")
                        /\ session' = "enter_failed"
                        /\ error' = "ValueError"
                        /\ x12_stream' =
                             StreamAfterRead(stream, x12_isa_segment_length)
                        /\ UNCHANGED context
                   ELSE /\ x12_stream' =
                             StreamAfterRead(stream, x12_isa_segment_length)
                        /\ context' = parsed.ctx
                        /\ session' = IF parsed.ok THEN "open" ELSE "enter_failed"
                        /\ error' = IF parsed.ok THEN "none" ELSE "IndexError"

(***************************************************************************)
(* X12SegmentReader.__exit__, reached when the with-block ends normally or *)
(* through an exception (the arguments are not used), or called directly,  *)
(* in whatever state the reader is.                                        *)
(***************************************************************************)
\* mutant: the stream is left open
CloseStream_skipped(stream) == stream

\* if not self.x12_stream.closed: self.x12_stream.close()
CloseStream(stream) ==
    IF stream.state # "closed" THEN [stream EXCEPT !.state = "closed"] ELSE stream

Exit ==
    /\ UNCHANGED <<files, buffer_size, enters, gens, cur, loop_vars>>
    /\ IF x12_stream.state = "None"
       THEN \* None.closed: AttributeError, before anything is assigned
            /\ error' = "AttributeError"
            /\ UNCHANGED <<x12_stream, context, x12_input, x12_config, session>>
       ELSE /\ x12_stream' = CloseStream(x12_stream)
            /\ context' = NoneContext
            /\ x12_input' = NoneStr
            /\ x12_config' = NoneConfig
            /\ session' = IF session = "open" THEN "closed" ELSE session
            /\ error' = "none"

(***************************************************************************)
(* X12SegmentReader.segments: the call creates a generator and runs none   *)
(* of its body, whatever the state of the reader; the body runs on the     *)
(* pulls.  The generators of one reader share its stream and its context;  *)
(* each has its own buffer.                                                *)
(***************************************************************************)
StartSegments ==
    /\ Len(gens) < MaxPasses
    /\ gens' = Append(gens, NewGenerator(Len(gens) + 1))
    /\ error' = "none"
    /\ UNCHANGED <<x12_input, files, x12_config, buffer_size, x12_stream,
                   context, session, enters, cur, loop_vars>>

\* mutant: the pass does not rewind the stream
PullStream_no_seek(g) == x12_stream

\* the stream a pull of generator g starts from: the first pull runs seek(0)
PullStream(g) == IF g.pc = "start" THEN StreamSeek0(x12_stream) ELSE x12_stream

\* the generators after generator i has been pulled and become g: every other
\* generator suspended at a yield has been interleaved with
AfterPull(i, g) ==
    [h \in 1..Len(gens) |->
        IF h = i THEN g
        ELSE IF gens[h].pc = "running" THEN [gens[h] EXCEPT !.mixed = TRUE]
        ELSE gens[h]]

\* generator i ends with an exception
Raise(i, exception) ==
    /\ gens' = AfterPull(i, [gens[i] EXCEPT !.pc = "raised", !.pending = <<>>,
                                            !.error = exception])
    /\ error' = exception

\* one pull of generator i: its body runs to its next yield, to its end or to
\* an exception
Pull(i) ==
    LET g == gens[i]
        refill == g.pending = <<>>
    IN
    /\ g.pc \in {"start", "running"}
    /\ cur' = i
    /\ UNCHANGED <<x12_input, files, x12_config, buffer_size, session, enters,
                   loop_vars>>
    /\ IF refill /\ x12_stream.state = "None"
       THEN \* None.seek(0), None.read(...): AttributeError
            /\ Raise(i, "AttributeError")
            /\ UNCHANGED <<x12_stream, context>>
       ELSE IF refill /\ x12_stream.state = "closed"
       THEN \* seek(0) or read(...) on a closed stream: ValueError
            /\ Raise(i, "ValueError")
            /\ UNCHANGED <<x12_stream, context>>
       ELSE IF context = NoneContext
       THEN \* self.context.delimiters on the None context: AttributeError
            /\ Raise(i, "AttributeError")
            /\ UNCHANGED <<x12_stream, context>>
       ELSE
       LET stream == PullStream(g)
           terminator == context.delimiters.segment_terminator
           separator == context.delimiters.element_separator
           chunk_end == ChunkEnd(stream.data, stream.pos, buffer_size, terminator)
           segments == IF refill
                       THEN ChunkSegments(
                              SubSeq(stream.data, stream.pos + 1, chunk_end),
                              terminator)
                       ELSE g.pending
           segment_fields == Split(Head(segments), separator)
           updated == _update_context(context, segment_fields)
       IN  IF refill /\ StreamRead(stream, buffer_size) = <<>>
           THEN \* if not buffer: break
                /\ gens' = AfterPull(i, [g EXCEPT !.pc = "done"])
                /\ x12_stream' = stream
                /\ error' = "none"
                /\ UNCHANGED context
           ELSE IF segments = <<>>
           THEN \* a chunk of whitespace only, split on None: no segment; the
                \* chunk ran to the end of the stream and the next read is empty
                /\ gens' = AfterPull(i, [g EXCEPT !.pc = "done"])
                /\ x12_stream' = [stream EXCEPT !.pos = chunk_end]
                /\ error' = "none"
                /\ UNCHANGED context
           ELSE /\ x12_stream' = IF refill
                                 THEN [stream EXCEPT !.pos = chunk_end]
                                 ELSE stream
                /\ context' = updated.ctx
                /\ IF updated.ok
                   THEN /\ gens' = AfterPull(i,
                              [g EXCEPT !.pc = "running",
                                        !.pending = Tail(segments),
                                        !.emitted = Append(g.emitted,
                                  [name |-> updated.ctx.current_segment_name,
                                   fields |-> updated.ctx.current_segment])])
                        /\ error' = "none"
                   ELSE \* IndexError in _update_context
                        Raise(i, "IndexError")

Pulls == \E i \in 1..Len(gens) : Pull(i)

Next == Enter \/ StartSegments \/ Pulls \/ Exit

Spec == Init /\ [][Next]_vars

(***************************************************************************)
(* Definitions used to state the properties.                               *)
(***************************************************************************)
Last(q) == q[Len(q)]

\* the generator pulled last, and the records it has yielded
gen == IF cur = 0 THEN NoGenerator ELSE gens[cur]
emitted == gen.emitted

\* the records of the generators that ran to their end with no other generator
\* pulled in between, in the order of the segments() calls
passes ==
    LET whole == SelectSeq(gens, LAMBDA g : g.pc = "done" /\ ~g.mixed) IN
    [i \in 1..Len(whole) |-> whole[i].emitted]

\* the text the session reads
Text == x12_stream.data

\* what is_x12_file finds under the expanded path of the input
file ==
    IF x12_input = NoneStr THEN NoFile ELSE Lookup(files, Expand(x12_input))

\* what open() finds under the input as it is written
opened == IF x12_input = NoneStr THEN NoFile ELSE Lookup(files, x12_input)

FieldsOf(records) == [i \in 1..Len(records) |-> records[i].fields]
NamesOf(records) == [i \in 1..Len(records) |-> records[i].name]

\* the segments of a text that ends with the terminator found at character
\* 105: the pieces between terminators
TextSegments(t) == Split(SubSeq(t, 1, Len(t) - 1), t[106])

\* no line breaks, every segment ends with the terminator, none is empty
WholeSegments(t) ==
    /\ Len(t) >= 106
    /\ \A i \in 1..Len(t) : t[i] # "\n"
    /\ t[Len(t)] = t[106]
    /\ LET segments == TextSegments(t) IN
       \A i \in 1..Len(segments) : segments[i] # <<>>

\* the field lists of the segments of a text, split on character 3
TextFields(t) ==
    LET segments == TextSegments(t) IN
    [i \in 1..Len(segments) |-> Split(segments[i], t[4])]

\* a control segment too short to hold its version fields
ShortControl(fields) ==
    \/ Upper(fields[1]) = ISA /\ Len(fields) < 13
    \/ Upper(fields[1]) = GS /\ Len(fields) < 9
    \/ Upper(fields[1]) = ST /\ Len(fields) < 2

\* index of the first short control segment, 0 when there is none
FirstShort(fieldlists) ==
    IF \E i \in 1..Len(fieldlists) : ShortControl(fieldlists[i])
    THEN CHOOSE i \in 1..Len(fieldlists) :
            /\ ShortControl(fieldlists[i])
            /\ \A j \in 1..(i - 1) : ~ShortControl(fieldlists[j])
    ELSE 0

\* no generator of the reader has yielded a record
NothingEmitted == \A i \in 1..Len(gens) : gens[i].emitted = <<>>

\* the generator pulled last ran as a pass of its own: while it was suspended
\* no other generator was pulled and __enter__ was not called again, and it
\* was not stopped by a missing or closed stream or by the context being
\* torn down
OwnPass == ~gen.mixed /\ gen.error \notin {"AttributeError", "ValueError"}

\* such a pass has read from the stream
PassStarted == gen.pc \in {"running", "done", "raised"} /\ OwnPass

(***************************************************************************)
(* Whole segments up to the first short control segment: for a             *)
(* transmission without line breaks whose segments all end with the        *)
(* terminator and are non-empty, and every buffer size, segments() emits   *)
(* the segments' field lists in transmission order, one record per         *)
(* segment, whole, up to the end of the transmission when every ISA, GS    *)
(* and ST segment has its 13, 9 and 2 fields, and otherwise up to the      *)
(* first shorter one, where it raises IndexError.  (A pass is pulled while *)
(* the stream is open, with no other generator of the reader pulled and no *)
(* further __enter__ in between.)                                          *)
(***************************************************************************)
WholeSegmentsUpToFirstShort ==
    (PassStarted /\ WholeSegments(Text)) =>
        LET expected == TextFields(Text)
            k == FirstShort(expected)
            limit == IF k = 0 THEN Len(expected) ELSE k - 1
        IN  /\ Len(emitted) <= limit
            /\ \A i \in 1..Len(emitted) :
                  /\ emitted[i].fields = expected[i]
                  /\ emitted[i].name = Upper(expected[i][1])
            /\ gen.pc = "done" => (k = 0 /\ Len(emitted) = Len(expected))
            /\ gen.pc = "raised" =>
                  (k # 0 /\ Len(emitted) = k - 1 /\ gen.error = "IndexError")

\* a pass over four whole segments, read with a buffer that ends inside the
\* second one, has completed
FourWholeSegmentsPassed ==
    /\ gen.pc = "done"
    /\ OwnPass
    /\ WholeSegments(Text)
    /\ buffer_size = 108
    /\ Len(emitted) = 4
    /\ FieldsOf(emitted) = TextFields(Text)

\* C1 (as stated): for a transmission without line breaks whose segments
\* all end with the terminator and are non-empty, and every buffer size, a
\* pass that has ended has emitted one record per segment, in transmission
\* order, each with the field list of its segment.
C1_EveryTransmissionEmitsAll ==
    (gen.pc \in {"done", "raised"} /\ OwnPass /\ WholeSegments(Text)) =>
        FieldsOf(emitted) = TextFields(Text)

\* what a whole pass of segments() over a text does with a given buffer
\* size: the number of records emitted and whether it ran to its end
PassOutcome(data, size, terminator, separator) ==
    LET raw == RawSegmentsFrom(data, 0, size, terminator)
        ok == [i \in 1..Len(raw) |->
                 _update_context(InitContext, Split(raw[i], separator)).ok]
        failing == {i \in 1..Len(raw) : ~ok[i]}
    IN  IF failing = {}
        THEN [completed |-> TRUE, count |-> Len(raw)]
        ELSE [completed |-> FALSE,
              count |-> (CHOOSE i \in failing : \A j \in failing : i <= j) - 1]

\* the pulls of a pass emit what the chunk loop yields for the session's own
\* buffer size
PullsFollowChunks ==
    (session = "open" /\ gen.pc = "done" /\ OwnPass) =>
        LET o == PassOutcome(Text, buffer_size,
                             context.delimiters.segment_terminator,
                             context.delimiters.element_separator)
        IN  o.completed /\ o.count = Len(emitted)

(***************************************************************************)
(* C2: for a transmission the reader accepts, with or without a line break *)
(* after each terminator, a completed pass emits the same number of        *)
(* records as a completed pass with any other buffer size.                 *)
(***************************************************************************)
C2_SameCountForAnyBufferSize ==
    (session = "open" /\ gen.pc = "done" /\ OwnPass) =>
        \A size \in BufferSizes :
            LET o == PassOutcome(Text, size,
                                 context.delimiters.segment_terminator,
                                 context.delimiters.element_separator)
            IN  o.completed => o.count = Len(emitted)

(***************************************************************************)
(* C3: while a session is open, after any pulls and restarts, the          *)
(* delimiters of the context are the characters 3, 82, 104 and 105 of the  *)
(* transmission (element, repetition, component separator and segment      *)
(* terminator).                                                            *)
(***************************************************************************)
C3_DelimitersAtOffsets ==
    session = "open" =>
        /\ Len(Text) >= 106
        /\ context.delimiters.element_separator = Text[4]
        /\ context.delimiters.repetition_separator = Text[83]
        /\ context.delimiters.component_separator = Text[105]
        /\ context.delimiters.segment_terminator = Text[106]

\* an open session in its second pass, after pulls, with the separators of
\* the transmission all different
C3_Witness ==
    /\ session = "open"
    /\ gen.n = 2
    /\ gen.pc = "running"
    /\ Len(emitted) >= 2
    /\ context.delimiters = [element_separator |-> "*",
                             repetition_separator |-> "^",
                             segment_terminator |-> "~",
                             component_separator |-> ":"]

(***************************************************************************)
(* C4: right after segments() has emitted an ISA, GS or ST record, the     *)
(* header slot of that kind holds the record's field list and the version  *)
(* identifiers are field 12 of the ISA record, fields 1 and 8 of the GS    *)
(* record and field 1 of the ST record; and as long as a pass goes on      *)
(* without an error and without another generator of the reader being      *)
(* pulled, each slot and identifier is that of the last such record the    *)
(* pass has emitted.                                                       *)
(***************************************************************************)
HasNamed(records, name) == \E i \in 1..Len(records) : records[i].name = name

\* the fields of the last record with the given name
LastNamed(records, name) ==
    LET hits == {i \in 1..Len(records) : records[i].name = name} IN
    records[CHOOSE i \in hits : \A j \in hits : j <= i].fields

\* the header slots and version identifiers of the context are those of the
\* last ISA, GS and ST records among the given ones
HeadersFrom(records) ==
    /\ HasNamed(records, ISA) =>
          /\ context.interchange_header = LastNamed(records, ISA)
          /\ context.version.interchange_control_version =
                LastNamed(records, ISA)[13]
    /\ HasNamed(records, GS) =>
          /\ context.functional_group_header = LastNamed(records, GS)
          /\ context.version.functional_id_code = LastNamed(records, GS)[2]
          /\ context.version.functional_version_code = LastNamed(records, GS)[9]
    /\ HasNamed(records, ST) =>
          /\ context.transaction_set_header = LastNamed(records, ST)
          /\ context.version.transaction_set_code = LastNamed(records, ST)[2]

C4_HeadersAndVersions ==
    (context # NoneContext /\ gen.pc \in {"running", "done"}) =>
        /\ gen.pc = "running" =>
              /\ HeadersFrom(<<Last(emitted)>>)
              /\ Last(emitted).name \in {ISA, GS, ST} =>
                    context.current_segment = Last(emitted).fields
        /\ ~gen.mixed => HeadersFrom(emitted)

\* a non-control segment has just been emitted after ISA, GS and ST, and the
\* version identifiers are those of the test transmission's shape
C4_Witness ==
    /\ session = "open"
    /\ gen.pc = "running"
    /\ ~gen.mixed
    /\ Len(emitted) = 4
    /\ NamesOf(emitted) = <<ISA, GS, ST, <<"E", "Q">> >>
    /\ context.version =
          [interchange_control_version |-> <<"0", "0", "5", "0", "1">>,
           functional_id_code |-> <<"H", "S">>,
           functional_version_code |-> <<"V", "1">>,
           transaction_set_code |-> <<"2", "7", "0">>]

(***************************************************************************)
(* The input is a string that names no file and does not begin with "ISA", *)
(* or it names a file, as open() resolves the name, whose content does not *)
(* begin with "ISA".                                                       *)
(***************************************************************************)
NotISAInline ==
    /\ x12_input # NoneStr
    /\ ~StartsWith(x12_input, ISA)
    /\ opened.kind = "none" /\ file.kind = "none"

NotISAFile ==
    /\ x12_input # NoneStr
    /\ ~StartsWith(x12_input, ISA)
    /\ opened.kind = "file" /\ ~StartsWith(opened.content, ISA)

\* C5 (as stated): on an input that does not begin with "ISA", an inline
\* string or a path to a file with such content, every attempt to open the
\* session raises ValueError, the session is never open and no record is
\* ever emitted.
C5_NotISAIsValueError ==
    /\ []((session # "new" /\ (NotISAInline \/ NotISAFile))
             => (session = "enter_failed" /\ NothingEmitted))
    /\ [][(enters' # enters /\ (NotISAInline \/ NotISAFile))
             => error' = "ValueError"]_vars

\* the same for inline strings and for paths the reader tests and opens
\* under one name: then no stream is opened either
NotISAFailsUnderOneName ==
    /\ []((/\ session # "new"
           /\ NotISAInline \/ NotISAFile
           /\ Expand(x12_input) = x12_input)
             => /\ session = "enter_failed"
                /\ x12_stream = NoneStream
                /\ NothingEmitted)
    /\ [][(/\ enters' # enters
           /\ NotISAInline \/ NotISAFile
           /\ Expand(x12_input) = x12_input)
             => error' = "ValueError"]_vars

\* a session is open on a text that begins with "FOO", read from the file
\* found under the unexpanded name, and has emitted a record
OpenOnFOO ==
    /\ session = "open"
    /\ x12_input = HomePath
    /\ StartsWith(Text, <<"F", "O", "O">>)
    /\ Len(emitted) >= 1

(***************************************************************************)
(* C6: when an opened session has ended, after a complete pass or through  *)
(* an exception, the stream is closed and context, x12_input and           *)
(* x12_config are None.                                                    *)
(***************************************************************************)
C6_ExitTearsDown ==
    session = "closed" =>
        /\ x12_stream.state = "closed"
        /\ context = NoneContext
        /\ x12_input = NoneStr
        /\ x12_config = NoneConfig

\* the session ended through the IndexError of a pull, after records were
\* emitted
C6_Witness ==
    /\ session = "closed"
    /\ gen.pc = "raised"
    /\ gen.error = "IndexError"
    /\ Len(emitted) >= 2
    /\ x12_stream.state = "closed"

(***************************************************************************)
(* C10: two passes of segments() run to completion in one session, each    *)
(* with no other generator pulled in between, emit the same sequence of    *)
(* (segment name, fields) records.                                         *)
(***************************************************************************)
C10_SecondPassIdentical ==
    Len(passes) >= 2 => passes[2] = passes[1]

\* two complete passes over a transmission with GS, ST and a further segment
C10_Witness ==
    /\ Len(passes) = 2
    /\ Len(passes[1]) >= 4
    /\ passes[2] = passes[1]
    /\ session = "open"

(***************************************************************************)
(* Errors of the ValueError class: of the errors the reader raises,        *)
(* IndexError (a LookupError) and AttributeError are not among them.       *)
(***************************************************************************)
ValueErrorClass == {"ValueError"}

\* the text the reader takes the input for: the content of the file found
\* under the expanded path, the input itself otherwise
SourceText == IF file.kind = "file" THEN file.content ELSE x12_input

\* C11 (as stated): an attempt to open a session on a text that begins with
\* "ISA" and has fewer than 106 characters fails with an error of the
\* ValueError class, and from then on the context holds no delimiter and
\* nothing is emitted.
C11_ShortISAIsValueError ==
    /\ []((/\ session # "new"
           /\ x12_input # NoneStr
           /\ StartsWith(SourceText, ISA)
           /\ Len(SourceText) < x12_isa_segment_length)
          => /\ session = "enter_failed"
             /\ context.delimiters = InitDelimiters
             /\ NothingEmitted)
    /\ [][(/\ enters' # enters
           /\ x12_input # NoneStr
           /\ StartsWith(SourceText, ISA)
           /\ Len(SourceText) < x12_isa_segment_length)
          => error' \in ValueErrorClass]_vars

\* C12 (as stated): when a session has ended, by __exit__ or by a failed
\* __enter__, its stream is not left open.
C12_NoStreamLeftOpen ==
    session \in {"closed", "enter_failed"} => x12_stream.state # "open"

\* C13 (as stated): a pull from segments() on a reader that was constructed
\* and not opened has failed with an error of the ValueError class, and no
\* record was emitted.
C13_UnopenedPullIsValueError ==
    (session = "new" /\ gen.pc = "raised") =>
        /\ gen.error \in ValueErrorClass
        /\ NothingEmitted

\* the version identifiers, the control segment each is read from and the
\* position of its field in that segment's field list
VersionKeys ==
    { [key |-> "interchange_control_version", name |-> ISA, at |-> 13],
      [key |-> "functional_id_code", name |-> GS, at |-> 2],
      [key |-> "functional_version_code", name |-> GS, at |-> 9],
      [key |-> "transaction_set_code", name |-> ST, at |-> 2] }

\* a step in which a generator of the reader is pulled
Pulled ==
    /\ cur' # 0
    /\ enters' = enters
    /\ Len(gens') = Len(gens)
    /\ gens[cur'].pc \in {"start", "running"}
    /\ gens'[cur'] # gens[cur']

\* a record of the given name has been yielded by a generator of the reader
EmittedNamed(name) == \E i \in 1..Len(gens) : HasNamed(gens[i].emitted, name)

\* C14 (as stated): a version identifier is absent as long as no ISA, GS or
\* ST record respectively has been emitted, and an identifier that is set
\* keeps its value for the rest of the session.
C14_SetOnceNeverChanges ==
    /\ [](context # NoneContext =>
             \A k \in VersionKeys :
                 ~EmittedNamed(k.name) => context.version[k.key] = NoneStr)
    /\ [][(context # NoneContext /\ context' # NoneContext) =>
             \A k \in VersionKeys :
                 context.version[k.key] # NoneStr =>
                     context'.version[k.key] = context.version[k.key]]_vars

\* a second GS record with another functional id code was emitted, and the
\* identifier is now that of the second
SecondGSOverwrites ==
    /\ session = "open"
    /\ gen.pc = "running"
    /\ Len(emitted) = 3
    /\ emitted[2].name = GS /\ emitted[3].name = GS
    /\ emitted[2].fields[2] = <<"H", "S">>
    /\ emitted[3].fields[2] = <<"H", "C">>
    /\ context.version.functional_id_code = <<"H", "C">>

\* a pass stopped with IndexError at a GS segment of two fields: no GS record
\* was emitted, and the functional id code is set from it
ShortGSSetsIdCode ==
    /\ session = "open"
    /\ gen.pc = "raised" /\ gen.error = "IndexError"
    /\ ~EmittedNamed(GS)
    /\ context.version.functional_id_code = <<"H", "X">>

\* a step in which a pull makes a generator yield a record
Emission ==
    /\ Pulled
    /\ Len(gens'[cur'].emitted) = Len(gens[cur'].emitted) + 1

\* after an emission, the current segment of the context is the record just
\* emitted, named by its upper-cased field 0
CurrentIsEmitted ==
    LET r == Last(emitted') IN
    /\ r.name = Upper(r.fields[1])
    /\ context'.current_segment_name = r.name
    /\ context'.current_segment = r.fields

PreviousIs(name, fields) ==
    /\ context'.previous_segment_name = name
    /\ context'.previous_segment = fields

\* the generator pulled last has yielded records, and none was yielded on
\* the reader after its last one: either its last pull yielded it, or it has
\* ended with no other generator pulled in between
EmittedLast ==
    /\ emitted # <<>>
    /\ gen.pc = "running" \/ ~gen.mixed

\* C16 (as stated): at every emission the current segment is the emitted
\* record and the previous segment is the record emitted immediately before
\* it on the reader, in this pass or in the pass before; it is absent when no
\* record was emitted before.
C16_PreviousIsLastEmitted ==
    [][Emission =>
          /\ CurrentIsEmitted
          /\ NothingEmitted => PreviousIs(NoneStr, NoneSeg)
          /\ EmittedLast =>
                PreviousIs(Last(emitted).name, Last(emitted).fields)]_vars

\* no pass of the reader has stopped with IndexError
NoCrash == \A i \in 1..Len(gens) : gens[i].error # "IndexError"

\* the same on a reader none of whose passes has stopped with IndexError
PreviousIsLastEmittedWithoutCrash ==
    [][(Emission /\ NoCrash) =>
          /\ CurrentIsEmitted
          /\ NothingEmitted => PreviousIs(NoneStr, NoneSeg)
          /\ EmittedLast =>
                PreviousIs(Last(emitted).name, Last(emitted).fields)]_vars

\* the first pass stopped with IndexError at a short GS segment, and the
\* second pass has emitted its first record with that segment as the
\* previous one
PreviousIsCrashedSegment ==
    /\ session = "open"
    /\ Len(gens) = 2
    /\ gens[1].pc = "raised" /\ gens[1].error = "IndexError" /\ ~gens[1].mixed
    /\ gen.n = 2 /\ Len(emitted) = 1
    /\ context.previous_segment = <<GS, <<"H", "X">> >>
    /\ ~EmittedNamed(GS)


\* C15 (as stated): in every state of an opened session the four delimiters
\* of the context are pairwise distinct and none is a whitespace character.
C15_DelimitersDistinctNonWhitespace ==
    session = "open" =>
        LET d == context.delimiters
            all == {d.element_separator, d.component_separator,
                    d.repetition_separator, d.segment_terminator}
        IN  Cardinality(all) = 4 /\ all \cap Whitespace = {}

(***************************************************************************)
(* The loop models of loops.py.  A loop under construction is a record     *)
(* [cls, clm, members]: its class, the total claim charge amount of its    *)
(* CLM segment (Loop2300) and, for every list member declared with         *)
(* Field(min_items, max_items), the occurrences given.  An occurrence      *)
(* carries the qualifier code of a DTP or AMT segment and the line item    *)
(* charge amount of a service line's SV2 segment.                          *)
(***************************************************************************)
\* Largest number of service lines with freely chosen amounts.
MaxServiceLines == 2
\* Largest number of sibling segments with freely chosen qualifier codes.
MaxQualified == 3

Max(a, b) == IF a > b THEN a ELSE b

RECURSIVE Pow10(_)
Pow10(n) == IF n = 0 THEN 1 ELSE 10 * Pow10(n - 1)

\* a Decimal: coefficient c and e digits after the point (c / 10^e)
Dec(c, e) == [c |-> c, e |-> e]

\* Decimal addition: exact, the result keeps the longer fraction
DecAdd(a, b) ==
    LET e == Max(a.e, b.e) IN
    Dec(a.c * Pow10(e - a.e) + b.c * Pow10(e - b.e), e)

\* Decimal comparison is by value: 500.0 == 500.00
DecEq(a, b) == a.c * Pow10(b.e) = b.c * Pow10(a.e)

Occurrence(q, amount) == [qualifier |-> q, amount |-> amount]

\* Field(min_items=lo, max_items=hi); lo is 0 where min_items is not given
Bounds(field, lo, hi) == [field |-> field, min |-> lo, max |-> hi]

\* mutant: the submitter loop accepts no PER segment
Loop1000A_no_minimum == { Bounds("per_segment", 0, 2) }

Loop1000A == { Bounds("per_segment", 1, 2) }
Loop2010Aa == { Bounds("ref_segment", 0, 16), Bounds("per_segment", 0, 2) }
Loop2010Ab == { Bounds("ref_segment", 0, 5) }
Loop2010Ba == { Bounds("ref_segment", 0, 5) }
Loop2010Bb == { Bounds("ref_segment", 0, 2) }
Loop2305 == { Bounds("hsd_segment", 0, 12) }
Loop2330H == { Bounds("ref_segment", 1, 3) }
Loop2330F == { Bounds("ref_segment", 1, 3) }
Loop2330E == { Bounds("ref_segment", 1, 3) }
Loop2330D == { Bounds("ref_segment", 1, 3) }
Loop2330C == { Bounds("ref_segment", 1, 3) }
Loop2330B == { Bounds("ref_segment", 0, 2) }
Loop2330A == { Bounds("ref_segment", 0, 3) }
Loop2320 == { Bounds("cas_segment", 0, 5), Bounds("amt_segment", 0, 8) }
Loop2310C == { Bounds("ref_segment", 0, 5) }
Loop2310B == { Bounds("ref_segment", 0, 5) }
Loop2310A == { Bounds("ref_segment", 0, 5) }
Loop2420C == { Bounds("ref_segment", 0, 5) }
Loop2420B == { Bounds("ref_segment", 0, 5) }
Loop2420A == { Bounds("ref_segment", 0, 5) }
Loop2400 ==
    { Bounds("pwk_segment", 0, 10), Bounds("dtp_segment", 0, 2),
      Bounds("amt_segment", 0, 2) }
Loop2300 ==
    { Bounds("dtp_segment", 0, 4), Bounds("pwk_segment", 0, 10),
      Bounds("amt_segment", 0, 5), Bounds("ref_segment", 0, 15),
      Bounds("k3_segment", 0, 10), Bounds("crc_segment", 0, 8),
      Bounds("hi_segment", 0, 20), Bounds("qty_segment", 0, 4),
      Bounds("loop_2320", 0, 10), Bounds("loop_2400", 1, 50) }
Loop2010Ca == { Bounds("ref_segment", 0, 6) }
Loop2000C == { Bounds("loop_2300", 0, 100) }
Loop2000B == { Bounds("loop_2300", 0, 100) }

LoopClasses ==
    { "Loop1000A", "Loop2010Aa", "Loop2010Ab", "Loop2010Ba", "Loop2010Bb",
      "Loop2305", "Loop2330H", "Loop2330F", "Loop2330E", "Loop2330D",
      "Loop2330C", "Loop2330B", "Loop2330A", "Loop2320", "Loop2310C",
      "Loop2310B", "Loop2310A", "Loop2420C", "Loop2420B", "Loop2420A",
      "Loop2400", "Loop2300", "Loop2010Ca", "Loop2000C", "Loop2000B" }

\* the bounded list members a class declares
BoundsOf(cls) ==
    CASE cls = "Loop1000A" -> Loop1000A
      [] cls = "Loop2010Aa" -> Loop2010Aa
      [] cls = "Loop2010Ab" -> Loop2010Ab
      [] cls = "Loop2010Ba" -> Loop2010Ba
      [] cls = "Loop2010Bb" -> Loop2010Bb
      [] cls = "Loop2305" -> Loop2305
      [] cls = "Loop2330H" -> Loop2330H
      [] cls = "Loop2330F" -> Loop2330F
      [] cls = "Loop2330E" -> Loop2330E
      [] cls = "Loop2330D" -> Loop2330D
      [] cls = "Loop2330C" -> Loop2330C
      [] cls = "Loop2330B" -> Loop2330B
      [] cls = "Loop2330A" -> Loop2330A
      [] cls = "Loop2320" -> Loop2320
      [] cls = "Loop2310C" -> Loop2310C
      [] cls = "Loop2310B" -> Loop2310B
      [] cls = "Loop2310A" -> Loop2310A
      [] cls = "Loop2420C" -> Loop2420C
      [] cls = "Loop2420B" -> Loop2420B
      [] cls = "Loop2420A" -> Loop2420A
      [] cls = "Loop2400" -> Loop2400
      [] cls = "Loop2300" -> Loop2300
      [] cls = "Loop2010Ca" -> Loop2010Ca
      [] cls = "Loop2000C" -> Loop2000C
      [] cls = "Loop2000B" -> Loop2000B

FieldsOfClass(cls) == { b.field : b \in BoundsOf(cls) }

\* the root validators a class declares
RootValidators(cls) ==
    CASE cls = "Loop2300" ->
            {"validate_duplicate_date_qualifiers", "validate_claim_amounts"}
      [] cls = "Loop2400" -> {"validate_duplicate_date_qualifiers"}
      [] cls = "Loop2320" -> {"validate_duplicate_amt_codes"}
      [] OTHER -> {}

\* the number of items of a list member against its declared bounds
ItemsOk(b, n) == n >= b.min /\ n <= b.max

\* field validation: one error per list member outside its bounds
FieldErrors(l) ==
    { [kind |-> "Cardinality", field |-> b.field] :
        b \in { x \in BoundsOf(l.cls) : ~ItemsOk(x, Len(l.members[x.field])) } }

\* the values handed to the root validators: the members that passed
Values(l) ==
    [f \in { b.field : b \in { x \in BoundsOf(l.cls) :
                               ItemsOk(x, Len(l.members[x.field])) } }
        |-> l.members[f]]

\* values.get(field, [])
ValuesGet(values, field) ==
    IF field \in DOMAIN values THEN values[field] ELSE <<>>

\* for line in lines[i..j]: line_total += line.sv2_segment.line_item_charge_amount
\* (the range is walked in order, one half after the other; the total of the
\* first half is computed before the second half is entered, the test on its
\* fraction length, which is never negative, being there for that only)
RECURSIVE AddLines(_, _, _, _)
AddLines(line_total, lines, i, j) ==
    IF i > j THEN line_total
    ELSE IF i = j THEN DecAdd(line_total, lines[i].amount)
    ELSE LET m == (i + j) \div 2
             first == AddLines(line_total, lines, i, m)
         IN  IF first.e >= 0 THEN AddLines(first, lines, m + 1, j) ELSE first

\* Loop2300.validate_claim_amounts
validate_claim_amounts(l, values) ==
    LET claim_amount == l.clm
        lines == ValuesGet(values, "loop_2400")
        line_total == AddLines(Dec(0, 1), lines, 1, Len(lines))
    IN  IF ~DecEq(claim_amount, line_total)
        THEN { [kind |-> "AmountMismatch", claim_amount |-> claim_amount,
                line_total |-> line_total] }
        ELSE {}

\* the first qualifier code that a later sibling repeats, as a set
RepeatedQualifiers(segments) ==
    LET later == { j \in 1..Len(segments) :
                     \E i \in 1..(j - 1) :
                        segments[i].qualifier = segments[j].qualifier }
    IN  IF later = {} THEN {}
        ELSE { segments[CHOOSE j \in later : \A k \in later : j <= k].qualifier }

\* validators.validate_duplicate_date_qualifiers
validate_duplicate_date_qualifiers(values) ==
    { [kind |-> "DuplicateQualifier", field |-> "dtp_segment", qualifier |-> q] :
        q \in RepeatedQualifiers(ValuesGet(values, "dtp_segment")) }

\* validators.validate_duplicate_amt_codes
validate_duplicate_amt_codes(values) ==
    { [kind |-> "DuplicateQualifier", field |-> "amt_segment", qualifier |-> q] :
        q \in RepeatedQualifiers(ValuesGet(values, "amt_segment")) }

RootErrors(l) ==
    LET declared == RootValidators(l.cls)
        values == Values(l)
    IN  (IF "validate_duplicate_date_qualifiers" \in declared
         THEN validate_duplicate_date_qualifiers(values) ELSE {})
        \cup (IF "validate_duplicate_amt_codes" \in declared
              THEN validate_duplicate_amt_codes(values) ELSE {})
        \cup (IF "validate_claim_amounts" \in declared
              THEN validate_claim_amounts(l, values) ELSE {})

ValidationErrors(l) == FieldErrors(l) \cup RootErrors(l)

(***************************************************************************)
(* Loops to build.                                                         *)
(***************************************************************************)
\* n occurrences with pairwise distinct qualifier codes and amount 1.00
Distinct(n) == [i \in 1..n |-> Occurrence(i, Dec(100, 2))]

\* the fewest occurrences a member needs
Minimal(cls) ==
    [f \in FieldsOfClass(cls) |->
        Distinct((CHOOSE b \in BoundsOf(cls) : b.field = f).min)]

\* the members of a class with one of them replaced
WithMember(cls, field, occurrences) ==
    [Minimal(cls) EXCEPT ![field] = occurrences]

\* every count from none to one above the maximum, for every bounded member
\* of every class but the claim loop
CountedLoops ==
    UNION { { [cls |-> cls, clm |-> Dec(0, 1),
               members |-> WithMember(cls, b.field, Distinct(n))] :
                b \in BoundsOf(cls), n \in 0..101 }
            : cls \in LoopClasses \ {"Loop2300"} }

\* a claim loop with n occurrences of one member, its total being that of
\* its service lines
ClaimWith(field, n) ==
    LET members == WithMember("Loop2300", field, Distinct(n)) IN
    [cls |-> "Loop2300", clm |-> Dec(100 * Len(members.loop_2400), 2),
     members |-> members]

CountedClaims == { ClaimWith(b.field, n) : b \in Loop2300, n \in 0..51 }

\* claim loops with more service lines than allowed or none, with a total of
\* zero
OverfullClaims ==
    { [cls |-> "Loop2300", clm |-> Dec(0, 1),
       members |-> WithMember("Loop2300", "loop_2400", Distinct(n))] :
        n \in {0, 50, 51} }

LineAmounts == { Dec(25000, 2), Dec(24999, 2), Dec(2500, 1) }
ClaimAmounts == { Dec(50000, 2), Dec(5000, 1), Dec(49999, 2), Dec(0, 1) }
Qualifiers == { 434, 435 }

ServiceLines ==
    { [i \in 1..Len(q) |-> Occurrence(i, q[i])] :
        q \in SeqsUpTo(LineAmounts, MaxServiceLines) }
Qualified ==
    { [i \in 1..Len(q) |-> Occurrence(q[i], Dec(100, 2))] :
        q \in SeqsUpTo(Qualifiers, MaxQualified) }

\* claim loops with freely chosen totals, line amounts and date qualifiers
Claims ==
    { [cls |-> "Loop2300", clm |-> clm,
       members |-> [Minimal("Loop2300") EXCEPT !["loop_2400"] = lines,
                                               !["dtp_segment"] = dtp]] :
        clm \in ClaimAmounts, lines \in ServiceLines, dtp \in Qualified }

\* service line loops with freely chosen date qualifiers, and other payer
\* loops with freely chosen amount qualifiers
QualifiedLoops ==
    { [cls |-> "Loop2400", clm |-> Dec(0, 1),
       members |-> WithMember("Loop2400", "dtp_segment", q)] : q \in Qualified }
    \cup { [cls |-> "Loop2400", clm |-> Dec(0, 1),
            members |-> WithMember("Loop2400", "amt_segment", q)] : q \in Qualified }
    \cup { [cls |-> "Loop2320", clm |-> Dec(0, 1),
            members |-> WithMember("Loop2320", "amt_segment", q)] : q \in Qualified }

LoopInputs ==
    { l \in CountedLoops \cup CountedClaims :
        \A b \in BoundsOf(l.cls) : Len(l.members[b.field]) <= b.max + 1 }
    \cup OverfullClaims \cup Claims \cup QualifiedLoops

InitLoops ==
    /\ x12_input = StandardISA
    /\ files = EmptyFS
    /\ x12_config = [x12_reader_buffer_size |-> x12_reader_buffer_size]
    /\ context = InitContext
    /\ buffer_size = NoneSize
    /\ x12_stream = NoneStream
    /\ session = "new"
    /\ enters = 0
    /\ error = "none"
    /\ gens = <<>>
    /\ cur = 0
    /\ loop \in LoopInputs
    /\ built = NotBuilt

\* constructing the loop model: field validation, then the root validators;
\* the loop is produced only when no error was collected
Build ==
    /\ loop # NoLoop
    /\ built = NotBuilt
    /\ LET errors == ValidationErrors(loop) IN
         built' = [status |-> IF errors = {} THEN "ok" ELSE "failed",
                   errors |-> errors,
                   produced |-> errors = {}]
    /\ UNCHANGED <<reader_vars, loop>>

NextLoops == Build

SpecLoops == InitLoops /\ [][NextLoops]_vars

(***************************************************************************)
(* Definitions used to state the properties of the loop models.            *)
(***************************************************************************)
\* an amount in hundredths
Cents(d) == d.c * Pow10(2 - d.e)

\* the exact sum, in hundredths, of the line item charge amounts i..j
RECURSIVE SumRange(_, _, _)
SumRange(lines, i, j) ==
    IF i > j THEN 0
    ELSE IF i = j THEN Cents(lines[i].amount)
    ELSE LET m == (i + j) \div 2 IN
         SumRange(lines, i, m) + SumRange(lines, m + 1, j)

SumCents(lines) == SumRange(lines, 1, Len(lines))

Built == built.status # "none"
Failed == built.status = "failed" /\ ~built.produced
Succeeded == built.status = "ok" /\ built.produced /\ built.errors = {}

AmountErrors == { e \in built.errors : e.kind = "AmountMismatch" }
CardinalityErrors(field) ==
    { e \in built.errors : e.kind = "Cardinality" /\ e.field = field }
DuplicateErrors(field) ==
    { e \in built.errors : e.kind = "DuplicateQualifier" /\ e.field = field }

HasDuplicate(segments) ==
    \E i, j \in 1..Len(segments) :
        i < j /\ segments[i].qualifier = segments[j].qualifier

\* C7 (as stated): after a claim loop (Loop2300) was built, the amount rule
\* raised no error if and only if the CLM total equals the exact decimal sum
\* of the line item charge amounts of all of its service lines; on a mismatch
\* the build failed with an error carrying the total and that sum, and no
\* claim loop was produced.
C7_AmountRuleIffExactSum ==
    (Built /\ loop.cls = "Loop2300") =>
        LET lines == loop.members.loop_2400
            equal == Cents(loop.clm) = SumCents(lines)
        IN  /\ (AmountErrors = {}) <=> equal
            /\ ~equal =>
                 /\ Failed
                 /\ \E e \in AmountErrors :
                       /\ Cents(e.claim_amount) = Cents(loop.clm)
                       /\ Cents(e.line_total) = SumCents(lines)

\* The same statement for the claim loops whose list of service lines has
\* between 1 and 50 entries.
AmountRuleWithinLineBounds ==
    (Built /\ loop.cls = "Loop2300" /\ Len(loop.members.loop_2400) \in 1..50) =>
        LET lines == loop.members.loop_2400
            equal == Cents(loop.clm) = SumCents(lines)
        IN  /\ (AmountErrors = {}) <=> equal
            /\ ~equal =>
                 /\ Failed
                 /\ \E e \in AmountErrors :
                       /\ Cents(e.claim_amount) = Cents(loop.clm)
                       /\ Cents(e.line_total) = SumCents(lines)

\* C8: for every repeatable member declared with occurrence bounds, building
\* the loop fails when the member has fewer occurrences than its minimum or
\* more than its maximum, and succeeds when every member is within its bounds
\* (the loop being otherwise valid); in particular Loop1000A takes 1..2 PER
\* segments, Loop2300 takes 1..50 service line loops and 0..10 Loop2320.
C8_OccurrenceBounds ==
    Built =>
        /\ \A b \in BoundsOf(loop.cls) :
              LET n == Len(loop.members[b.field]) IN
              (n < b.min \/ n > b.max) =>
                  Failed /\ CardinalityErrors(b.field) # {}
        /\ loop \in CountedLoops \cup CountedClaims =>
              (Succeeded <=>
                  \A b \in BoundsOf(loop.cls) :
                      Len(loop.members[b.field]) \in b.min..b.max)
        /\ (loop.cls = "Loop1000A" /\ loop \in CountedLoops) =>
              (Succeeded <=> Len(loop.members.per_segment) \in 1..2)
        /\ loop.cls = "Loop2300" =>
              /\ Len(loop.members.loop_2400) \notin 1..50 => Failed
              /\ Len(loop.members.loop_2320) \notin 0..10 => Failed
        /\ loop \in { ClaimWith("loop_2400", 1), ClaimWith("loop_2400", 50),
                      ClaimWith("loop_2320", 0), ClaimWith("loop_2320", 10) }
              => Succeeded

\* a claim loop with exactly 50 service lines was built
C8_Witness ==
    /\ loop.cls = "Loop2300"
    /\ Len(loop.members.loop_2400) = 50
    /\ Succeeded

\* C9 (as stated): in a claim loop (Loop2300) and in a service line loop
\* (Loop2400), two sibling DTP segments with the same date qualifier make the
\* build fail with a duplicate qualifier error, and pairwise distinct
\* qualifiers raise no duplicate qualifier error; the same holds for the AMT
\* segments of Loop2320.
C9_DuplicateQualifiers ==
    Built =>
        /\ loop.cls \in {"Loop2300", "Loop2400"} =>
              LET dtp == loop.members.dtp_segment
              IN  /\ HasDuplicate(dtp) =>
                        Failed /\ DuplicateErrors("dtp_segment") # {}
                  /\ ~HasDuplicate(dtp) => DuplicateErrors("dtp_segment") = {}
        /\ loop.cls = "Loop2320" =>
              LET amt == loop.members.amt_segment
              IN  /\ HasDuplicate(amt) =>
                        Failed /\ DuplicateErrors("amt_segment") # {}
                  /\ ~HasDuplicate(amt) => DuplicateErrors("amt_segment") = {}

\* The same statement for the lists that are within their declared bounds
\* (at most 4 DTP segments in Loop2300, 2 in Loop2400, 8 AMT segments in
\* Loop2320); a longer list with a duplicate makes the build fail as well.
DuplicateRuleWithinBounds ==
    Built =>
        /\ loop.cls \in {"Loop2300", "Loop2400"} =>
              LET dtp == loop.members.dtp_segment
                  most == IF loop.cls = "Loop2300" THEN 4 ELSE 2
              IN  /\ HasDuplicate(dtp) => Failed
                  /\ (HasDuplicate(dtp) /\ Len(dtp) <= most) =>
                        DuplicateErrors("dtp_segment") # {}
                  /\ ~HasDuplicate(dtp) => DuplicateErrors("dtp_segment") = {}
        /\ loop.cls = "Loop2320" =>
              LET amt == loop.members.amt_segment
              IN  /\ HasDuplicate(amt) => Failed
                  /\ (HasDuplicate(amt) /\ Len(amt) <= 8) =>
                        DuplicateErrors("amt_segment") # {}
                  /\ ~HasDuplicate(amt) => DuplicateErrors("amt_segment") = {}

\* a service line loop with three DTP segments, two of them with the same
\* qualifier, was rejected for the length of the list only
OverlongDuplicateUnreported ==
    /\ loop.cls = "Loop2400"
    /\ Len(loop.members.dtp_segment) = 3
    /\ HasDuplicate(loop.members.dtp_segment)
    /\ Failed
    /\ CardinalityErrors("dtp_segment") # {}
    /\ DuplicateErrors("dtp_segment") = {}

====
